---- MODULE Spec2Model ----
(***************************************************************************)
(* Model of CentralPixelBenchmark.go: the central pixel benchmark for the  *)
(* Galaxy Zoo competition.  main() reads the central patch colour of every *)
(* training and test image, reads the training solutions, clusters the     *)
(* training galaxies by a hashed colour ratio, averages the solutions of   *)
(* each cluster and writes one prediction row per test galaxy.             *)
(*                                                                         *)
(* float64 values are modelled as exact rationals <<n, d>> in lowest terms *)
(* (d > 0): rounding of float64 arithmetic is not modelled.  Go slices are *)
(* modelled as addresses into `heap`, so that two names for one backing    *)
(* array see each other's writes.                                          *)
(***************************************************************************)
EXTENDS Integers, Sequences, FiniteSets, TLC

(* ---- bounds of the model ---- *)
NumTrain == 2
NumTest == 2
MaxChannel == 4
MaxHashFactor == 10

(* ---- program constants ---- *)
NClasses == 37
RowLength == 38
PatchHalf == 5
HashFactor == 10

(* ---- float64 as exact rationals ---- *)
RECURSIVE Gcd(_, _)
Gcd(a, b) == IF b = 0 THEN a ELSE Gcd(b, a % b)

Abs(n) == IF n < 0 THEN -n ELSE n

Norm(n, d) ==
    LET g == Gcd(Abs(n), d) IN <<n \div g, d \div g>>

Zero == <<0, 1>>

RatAdd(p, q) == Norm(p[1] * q[2] + q[1] * p[2], p[2] * q[2])

RatDivInt(p, n) == Norm(p[1], p[2] * n)

(* ---- strconv ---- *)
\* strconv.ParseFloat on the field strings that occur in the modelled files.
ParseFloat(s) ==
    CASE s = "0"    -> [val |-> <<0, 1>>, err |-> FALSE]
      [] s = "1"    -> [val |-> <<1, 1>>, err |-> FALSE]
      [] s = "0.5"  -> [val |-> <<1, 2>>, err |-> FALSE]
      [] s = "0.25" -> [val |-> <<1, 4>>, err |-> FALSE]
      [] OTHER      -> [val |-> <<0, 1>>, err |-> TRUE]

Digit(k) == <<"0", "1", "2", "3", "4", "5", "6", "7", "8", "9">>[k + 1]

\* Decimal digits of rem/d after the point, at most `left` of them, without
\* trailing zeros.
RECURSIVE FracDigits(_, _, _)
FracDigits(rem, d, left) ==
    IF rem = 0 \/ left = 0 THEN ""
    ELSE Digit((rem * 10) \div d) \o FracDigits((rem * 10) % d, d, left - 1)

RECURSIVE IntDigits(_)
IntDigits(n) ==
    IF n < 10 THEN Digit(n) ELSE IntDigits(n \div 10) \o Digit(n % 10)

\* strconv.FormatFloat(x, 'f', -1, 64) for x >= 0: the shortest decimal that
\* reads back as x, which for the values here is the expansion cut at 16
\* fractional digits.
FormatFloat(p) ==
    LET ip == p[1] \div p[2]
        fr == FracDigits(p[1] % p[2], p[2], 16)
    IN  IF fr = "" THEN IntDigits(ip) ELSE IntDigits(ip) \o "." \o fr

(* ---- the input files ---- *)
GalaxyId(prefix, i) == prefix \o ToString(i)

TrainPrefix == "1000"
TestPrefix == "2000"

TrainId(i) == GalaxyId(TrainPrefix, i)
TestId(i) == GalaxyId(TestPrefix, i)

\* An image file either cannot be opened ("noopen"), cannot be decoded
\* ("nodecode"), or is a "jpeg" whose central patch has the RGBA() value px
\* at every pixel.
Jpeg(c) == [kind |-> "jpeg", px |-> c]

Black == <<0, 0, 0>>
\* Colours of non-zero intensity.  With hash factor 10, <<3, 0, 0>>,
\* <<6, 1, 0>> and <<9, 0, 0>> have key 300, <<1, 1, 1>> has key 111 and
\* <<0, 2, 1>> has key 21.
TrainPalette == {<<3, 0, 0>>, <<6, 1, 0>>, <<1, 1, 1>>}
TestPalette  == {<<9, 0, 0>>, <<0, 2, 1>>}

\* k files with k different identifiers.
RECURSIVE GoodLists(_, _, _)
GoodLists(k, prefix, palette) ==
    IF k = 0 THEN {<< >>}
    ELSE {Append(l, [id |-> GalaxyId(prefix, k), img |-> Jpeg(c)]) :
             l \in GoodLists(k - 1, prefix, palette), c \in palette}

\* A file that cannot be opened, one that cannot be decoded, two files that
\* yield the same identifier, a black image, and a black image with another.
BadLists(prefix, c) ==
    LET id == GalaxyId(prefix, 1) IN
    { <<[id |-> id, img |-> [kind |-> "noopen", px |-> Black]]>>,
      <<[id |-> id, img |-> [kind |-> "nodecode", px |-> Black]]>>,
      <<[id |-> id, img |-> Jpeg(c)], [id |-> id, img |-> Jpeg(c)]>>,
      <<[id |-> id, img |-> Jpeg(Black)]>>,
      <<[id |-> id, img |-> Jpeg(c)],
        [id |-> GalaxyId(prefix, 2), img |-> Jpeg(Black)]>> }

FileLists(n, prefix, palette) ==
    UNION {GoodLists(k, prefix, palette) : k \in 0..n}
        \cup BadLists(prefix, CHOOSE c \in palette : TRUE)

\* The solutions file: a header line and one row per galaxy.
HeaderLine == [j \in 1..RowLength |-> IF j = 1 THEN "GalaxyID" ELSE "Class"]

\* The regular row of training galaxy i: Class i is 1, every second galaxy
\* has 0.25 in the class after it, and the last class is 0.5.
GoodRow(i) ==
    [j \in 1..RowLength |->
        IF j = 1 THEN TrainId(i)
        ELSE IF j = i + 1 THEN "1"
        ELSE IF j = i + 2 /\ i % 2 = 0 THEN "0.25"
        ELSE IF j = RowLength THEN "0.5"
        ELSE "0"]

RowKinds == {"short", "long", "toolong", "nonnumeric"}

Row(i, kind) ==
    CASE kind = "short"      -> SubSeq(GoodRow(i), 1, RowLength - 1)
      [] kind = "long"       -> Append(GoodRow(i), "1")
      [] kind = "toolong"    -> GoodRow(i) \o <<"1", "1">>
      [] kind = "nonnumeric" -> [GoodRow(i) EXCEPT ![3] = "abc"]

\* All n galaxies regular; or the first row irregular; or the first row
\* missing.
SolutionFiles(n) ==
    LET all == [i \in 1..n |-> GoodRow(i)] IN
    {all}
      \cup {[all EXCEPT ![1] = Row(1, k)] : k \in RowKinds}
      \cup {Tail(all)}

(* ---- state ---- *)
VARIABLES
    imagesTraining,         \* files matching images_training/*.jpg
    imagesTest,             \* files matching images_test/*.jpg
    solutionsFile,          \* rows of solutions_training.csv after the header
    hashFactor,             \* main: hashFactor
    pc,                     \* position of main
    err,                    \* why the process ended early ("" if it did not)
    heap,                   \* backing arrays of the []float64 slices
    trainingGalaxyRGB,      \* main: galaxyId -> [3]int
    testGalaxyRGB,          \* main: galaxyId -> [3]int
    trainingSolutions,      \* main: galaxyId -> slice (address in heap)
    headerRow,              \* main: header of the solutions file
    galaxyClusters,         \* main: key -> list of galaxyId
    galaxyClusterSolutions, \* main: key -> slice (address in heap)
    testPredictions,        \* CreateCentralPixelBenchmark: galaxyId -> slice
    rgbCluster,             \* CreateCentralPixelBenchmark: key computed per galaxyId
    todo,                   \* keys the running range loop has not visited yet
    fo,                     \* lastrun.csv: whether it was created, and its rows
    wr,                     \* rows held by the csv writer until Flush
    count                   \* CreateCentralPixelBenchmark: count

vars == <<imagesTraining, imagesTest, solutionsFile, hashFactor, pc, err, heap,
          trainingGalaxyRGB, testGalaxyRGB, trainingSolutions, headerRow,
          galaxyClusters, galaxyClusterSolutions, testPredictions, rgbCluster,
          todo, fo, wr, count>>

inputs == <<imagesTraining, imagesTest, solutionsFile, hashFactor>>

EmptyMap == << >>

Put(m, k, v) == [x \in DOMAIN m \cup {k} |-> IF x = k THEN v ELSE m[x]]

\* A nil slice: what a Go map returns for a missing key.
Nil == 0

Lookup(m, k) == IF k \in DOMAIN m THEN m[k] ELSE Nil

SliceLen(h, a) == IF a = Nil THEN 0 ELSE Len(h[a])

Fatal == {"exit", "panic"}

NoFile == [created |-> FALSE, rows |-> << >>]

Start ==
    /\ pc = "GetTrainingGalaxyRGB"
    /\ err = ""
    /\ heap = << >>
    /\ trainingGalaxyRGB = EmptyMap
    /\ testGalaxyRGB = EmptyMap
    /\ trainingSolutions = EmptyMap
    /\ headerRow = << >>
    /\ galaxyClusters = EmptyMap
    /\ galaxyClusterSolutions = EmptyMap
    /\ testPredictions = EmptyMap
    /\ rgbCluster = EmptyMap
    /\ todo = {}
    /\ fo = NoFile
    /\ wr = << >>
    /\ count = 0

Init ==
    /\ imagesTraining \in FileLists(NumTrain, TrainPrefix, TrainPalette)
    /\ imagesTest \in FileLists(NumTest, TestPrefix, TestPalette)
    /\ solutionsFile \in SolutionFiles(NumTrain)
    /\ hashFactor = HashFactor
    /\ Start

(* ---- GetImageRGB, GetGalaxyRGB ---- *)
\* The patch loops visit (2*PatchHalf)^2 pixels, all of colour img.
GetImageRGB(img) ==
    IF img.kind = "noopen"
    THEN [ok |-> FALSE, msg |-> "Error opening file", rgb |-> Black]
    ELSE IF img.kind = "nodecode"
    THEN [ok |-> FALSE, msg |-> "Error opening image file", rgb |-> Black]
    ELSE LET cnt == (2 * PatchHalf) * (2 * PatchHalf)
             avR == cnt * img.px[1]
             avG == cnt * img.px[2]
             avB == cnt * img.px[3]
         IN  [ok |-> TRUE, msg |-> "",
              rgb |-> <<avR \div cnt, avG \div cnt, avB \div cnt>>]

RECURSIVE GalaxyRGBLoop(_, _, _)
GalaxyRGBLoop(listFiles, i, galaxyRGB) ==
    IF i > Len(listFiles) THEN [ok |-> TRUE, msg |-> "", map |-> galaxyRGB]
    ELSE LET img == GetImageRGB(listFiles[i].img) IN
         IF ~img.ok THEN [ok |-> FALSE, msg |-> img.msg, map |-> galaxyRGB]
         ELSE GalaxyRGBLoop(listFiles, i + 1, Put(galaxyRGB, listFiles[i].id, img.rgb))

GetGalaxyRGB(listFiles) ==
    LET r == GalaxyRGBLoop(listFiles, 1, EmptyMap) IN
    IF ~r.ok THEN r
    ELSE IF Cardinality(DOMAIN r.map) # Len(listFiles)
    THEN [ok |-> FALSE, msg |-> "Missing galaxy somewhere", map |-> r.map]
    ELSE r

GetTrainingGalaxyRGB ==
    /\ pc = "GetTrainingGalaxyRGB"
    /\ LET r == GetGalaxyRGB(imagesTraining) IN
       IF r.ok
       THEN /\ trainingGalaxyRGB' = r.map
            /\ pc' = "GetTestGalaxyRGB"
            /\ err' = err
       ELSE /\ pc' = "exit"
            /\ err' = r.msg
            /\ UNCHANGED trainingGalaxyRGB
    /\ UNCHANGED <<inputs, heap, testGalaxyRGB, trainingSolutions, headerRow,
                   galaxyClusters, galaxyClusterSolutions, testPredictions,
                   rgbCluster, todo, fo, wr, count>>

GetTestGalaxyRGB ==
    /\ pc = "GetTestGalaxyRGB"
    /\ LET r == GetGalaxyRGB(imagesTest) IN
       IF r.ok
       THEN /\ testGalaxyRGB' = r.map
            /\ pc' = "GetTrainingSolutions"
            /\ err' = err
       ELSE /\ pc' = "exit"
            /\ err' = r.msg
            /\ UNCHANGED testGalaxyRGB
    /\ UNCHANGED <<inputs, heap, trainingGalaxyRGB, trainingSolutions, headerRow,
                   galaxyClusters, galaxyClusterSolutions, testPredictions,
                   rgbCluster, todo, fo, wr, count>>

(* ---- AssignClassValues, GetTrainingSolutions ---- *)
ZeroRow(n) == [j \in 1..n |-> Zero]

\* The loop runs over the Go indices 0 .. len(splitrow)-2, here 1 .. n.  An
\* iteration parses the field, stores the value (which panics beyond the end
\* of floatrow) and then exits if the field did not parse; so the run ends
\* at the first index that is out of range or does not parse, and otherwise
\* the first n positions of floatrow hold the first n fields.
AssignClassValues(splitrow) ==
    LET n == Len(splitrow) - 1
        stops == {i \in 1..n : i > NClasses \/ ParseFloat(splitrow[i]).err}
        floatrow == [i \in 1..NClasses |->
                        IF i <= n THEN ParseFloat(splitrow[i]).val ELSE Zero]
    IN  IF stops = {} THEN [st |-> "ok", msg |-> "", row |-> floatrow]
        ELSE LET i == CHOOSE x \in stops : \A y \in stops : x <= y IN
             IF i > NClasses
             THEN [st |-> "panic", msg |-> "index out of range",
                   row |-> ZeroRow(NClasses)]
             ELSE [st |-> "exit", msg |-> "Error converting string to float",
                   row |-> ZeroRow(NClasses)]

\* The scanner loop of GetTrainingSolutions; h is the heap, ts the map.
RECURSIVE SolutionsLoop(_, _, _, _)
SolutionsLoop(rows, i, h, ts) ==
    IF i > Len(rows) THEN [st |-> "ok", msg |-> "", heap |-> h, map |-> ts]
    ELSE LET splitrow == rows[i]
             values == AssignClassValues(SubSeq(splitrow, 2, Len(splitrow)))
         IN  IF values.st # "ok"
             THEN [st |-> values.st, msg |-> values.msg, heap |-> h, map |-> ts]
             ELSE SolutionsLoop(rows, i + 1, Append(h, values.row),
                                Put(ts, splitrow[1], Len(h) + 1))

GetTrainingSolutions ==
    /\ pc = "GetTrainingSolutions"
    /\ LET r == SolutionsLoop(solutionsFile, 1, heap, EmptyMap) IN
       IF r.st = "ok"
       THEN /\ trainingSolutions' = r.map
            /\ heap' = r.heap
            /\ headerRow' = HeaderLine
            /\ pc' = "GetGalaxyClusters"
            /\ todo' = DOMAIN trainingGalaxyRGB
            /\ err' = err
       ELSE /\ pc' = r.st
            /\ err' = r.msg
            /\ UNCHANGED <<trainingSolutions, heap, headerRow, todo>>
    /\ UNCHANGED <<inputs, trainingGalaxyRGB, testGalaxyRGB, galaxyClusters,
                   galaxyClusterSolutions, testPredictions, rgbCluster, fo, wr,
                   count>>

(* ---- GetGalaxyClusters ---- *)
\* Variant of ClusterKey that multiplies the red ratio by the hash factor
\* only once.
ClusterKeyLinear(RGB, hF) ==
    LET avIntensity == (RGB[1] + RGB[2] + RGB[3]) \div 3 IN
    IF avIntensity = 0 THEN [panic |-> TRUE, key |-> 0, RGB |-> RGB]
    ELSE LET RGB1 == [RGB  EXCEPT ![1] = @ \div avIntensity]
             RGB2 == [RGB1 EXCEPT ![2] = @ \div avIntensity]
             RGB3 == [RGB2 EXCEPT ![3] = @ \div avIntensity]
         IN  [panic |-> FALSE,
              key |-> RGB3[1] * hF + RGB3[2] * hF + RGB3[3],
              RGB |-> RGB3]

\* Lines 175-179 on the loop's copy RGB of the map value: the average
\* intensity, the three in-place divisions and the key.  Division by a zero
\* intensity panics.
ClusterKey(RGB, hF) ==
    LET avIntensity == (RGB[1] + RGB[2] + RGB[3]) \div 3 IN
    IF avIntensity = 0 THEN [panic |-> TRUE, key |-> 0, RGB |-> RGB]
    ELSE LET RGB1 == [RGB  EXCEPT ![1] = @ \div avIntensity]
             RGB2 == [RGB1 EXCEPT ![2] = @ \div avIntensity]
             RGB3 == [RGB2 EXCEPT ![3] = @ \div avIntensity]
         IN  [panic |-> FALSE,
              key |-> RGB3[1] * hF * hF + RGB3[2] * hF + RGB3[3],
              RGB |-> RGB3]

\* Variant of AddToCluster that starts a new list even when the key exists.
AddToClusterReplace(clusters, key, galaxyId) ==
    Put(clusters, key, <<galaxyId>>)

\* Lines 180-184.
AddToCluster(clusters, key, galaxyId) ==
    IF key \in DOMAIN clusters
    THEN Put(clusters, key, Append(clusters[key], galaxyId))
    ELSE Put(clusters, key, <<galaxyId>>)

\* One iteration of the range loop over trainingGalaxyRGB (any order).
GetGalaxyClustersStep ==
    /\ pc = "GetGalaxyClusters"
    /\ \E galaxyId \in todo :
         LET k == ClusterKey(trainingGalaxyRGB[galaxyId], hashFactor) IN
         IF k.panic
         THEN /\ pc' = "panic"
              /\ err' = "integer divide by zero"
              /\ UNCHANGED <<galaxyClusters, todo>>
         ELSE /\ galaxyClusters' = AddToCluster(galaxyClusters, k.key, galaxyId)
              /\ todo' = todo \ {galaxyId}
              /\ UNCHANGED <<pc, err>>
    /\ UNCHANGED <<inputs, heap, trainingGalaxyRGB, testGalaxyRGB,
                   trainingSolutions, headerRow, galaxyClusterSolutions,
                   testPredictions, rgbCluster, fo, wr, count>>

\* After the loop: the check for zero clusters and the return.
GetGalaxyClustersReturn ==
    /\ pc = "GetGalaxyClusters"
    /\ todo = {}
    /\ IF Cardinality(DOMAIN galaxyClusters) < 1
       THEN /\ pc' = "exit"
            /\ err' = "Created zero galaxy clusters"
            /\ UNCHANGED todo
       ELSE /\ pc' = "GetSolutionsForGalaxyClusters"
            /\ todo' = DOMAIN galaxyClusters
            /\ err' = err
    /\ UNCHANGED <<inputs, heap, trainingGalaxyRGB, testGalaxyRGB,
                   trainingSolutions, headerRow, galaxyClusters,
                   galaxyClusterSolutions, testPredictions, rgbCluster, fo, wr,
                   count>>

(* ---- AverageGalaxySolutions, GetSolutionsForGalaxyClusters ---- *)
\* Lines 156-160: avSolutions (the array at address a) += the vector of
\* galaxyList[i], for i from the given index on.
RECURSIVE SumLoop(_, _, _, _, _, _)
SumLoop(galaxyList, i, ts, h, a, NProbabilities) ==
    IF i > Len(galaxyList) THEN [st |-> "ok", heap |-> h]
    ELSE LET b == Lookup(ts, galaxyList[i]) IN
         IF SliceLen(h, b) < NProbabilities
         THEN [st |-> "panic", heap |-> h]
         ELSE SumLoop(galaxyList, i + 1, ts,
                      [h EXCEPT ![a] = [j \in 1..NProbabilities |->
                                           RatAdd(h[a][j], h[b][j])]],
                      a, NProbabilities)

\* Variant of AverageGalaxySolutions whose summing loop starts at the first
\* galaxy instead of the second.
AverageGalaxySolutionsFromFirst(galaxyList, ts, h) ==
    LET a == Lookup(ts, galaxyList[1])
        NProbabilities == SliceLen(h, a)
    IN  IF NProbabilities # NClasses
        THEN [st |-> "exit", msg |-> "NProbabilities is not 37",
              heap |-> h, slice |-> Nil]
        ELSE IF Len(galaxyList) = 1
        THEN [st |-> "ok", msg |-> "", heap |-> h, slice |-> a]
        ELSE LET s == SumLoop(galaxyList, 1, ts, h, a, NProbabilities) IN
             IF s.st # "ok"
             THEN [st |-> "panic", msg |-> "index out of range",
                   heap |-> s.heap, slice |-> Nil]
             ELSE [st |-> "ok", msg |-> "",
                   heap |-> [s.heap EXCEPT ![a] =
                                [j \in 1..NProbabilities |->
                                    RatDivInt(s.heap[a][j], Len(galaxyList))]],
                   slice |-> a]

AverageGalaxySolutions(galaxyList, ts, h) ==
    LET a == Lookup(ts, galaxyList[1])
        NProbabilities == SliceLen(h, a)
    IN  IF NProbabilities # NClasses
        THEN [st |-> "exit", msg |-> "NProbabilities is not 37",
              heap |-> h, slice |-> Nil]
        ELSE IF Len(galaxyList) = 1
        THEN [st |-> "ok", msg |-> "", heap |-> h, slice |-> a]
        ELSE LET s == SumLoop(galaxyList, 2, ts, h, a, NProbabilities) IN
             IF s.st # "ok"
             THEN [st |-> "panic", msg |-> "index out of range",
                   heap |-> s.heap, slice |-> Nil]
             ELSE [st |-> "ok", msg |-> "",
                   heap |-> [s.heap EXCEPT ![a] =
                                [j \in 1..NProbabilities |->
                                    RatDivInt(s.heap[a][j], Len(galaxyList))]],
                   slice |-> a]

\* One iteration of the range loop over galaxyClusters (any order); the
\* last one returns to main, which calls CreateCentralPixelBenchmark.
GetSolutionsForGalaxyClusters ==
    /\ pc = "GetSolutionsForGalaxyClusters"
    /\ \E clusterId \in todo :
         LET r == AverageGalaxySolutions(galaxyClusters[clusterId],
                                         trainingSolutions, heap) IN
         IF r.st # "ok"
         THEN /\ pc' = r.st
              /\ err' = r.msg
              /\ UNCHANGED <<heap, galaxyClusterSolutions, todo>>
         ELSE /\ heap' = r.heap
              /\ galaxyClusterSolutions' =
                     Put(galaxyClusterSolutions, clusterId, r.slice)
              /\ err' = err
              /\ IF todo = {clusterId}
                 THEN /\ pc' = "CreateCentralPixelBenchmark"
                      /\ todo' = DOMAIN testGalaxyRGB
                 ELSE /\ pc' = pc
                      /\ todo' = todo \ {clusterId}
    /\ UNCHANGED <<inputs, trainingGalaxyRGB, testGalaxyRGB, trainingSolutions,
                   headerRow, galaxyClusters, testPredictions, rgbCluster, fo,
                   wr, count>>

(* ---- BuildPredictionRow, CreateCentralPixelBenchmark ---- *)
\* Variant of PixelCluster with the factors of red and green exchanged.
PixelClusterSwapped(RGB, hF) ==
    LET avIntensity == (RGB[1] + RGB[2] + RGB[3]) \div 3 IN
    IF avIntensity = 0 THEN [panic |-> TRUE, key |-> 0]
    ELSE [panic |-> FALSE,
          key |-> hF * (RGB[1] \div avIntensity)
                    + hF * hF * (RGB[2] \div avIntensity)
                    + RGB[3] \div avIntensity]

\* Lines 234-235: the key of a test galaxy.
PixelCluster(RGB, hF) ==
    LET avIntensity == (RGB[1] + RGB[2] + RGB[3]) \div 3 IN
    IF avIntensity = 0 THEN [panic |-> TRUE, key |-> 0]
    ELSE [panic |-> FALSE,
          key |-> hF * hF * (RGB[1] \div avIntensity)
                    + hF * (RGB[2] \div avIntensity)
                    + RGB[3] \div avIntensity]

\* Variant of MissPrediction with one zero too few.
MissPredictionShort == [j \in 1..36 |-> Zero]

\* Line 240: the slice literal of zeros.
MissPrediction == [j \in 1..37 |-> Zero]

\* One iteration of the first range loop over testGalaxyRGB (any order).
AssignPrediction ==
    /\ pc = "CreateCentralPixelBenchmark"
    /\ \E galaxyId \in todo :
         LET k == PixelCluster(testGalaxyRGB[galaxyId], hashFactor) IN
         IF k.panic
         THEN /\ pc' = "panic"
              /\ err' = "integer divide by zero"
              /\ UNCHANGED <<heap, testPredictions, rgbCluster, todo>>
         ELSE /\ rgbCluster' = Put(rgbCluster, galaxyId, k.key)
              /\ IF k.key \in DOMAIN galaxyClusterSolutions
                 THEN /\ testPredictions' =
                            Put(testPredictions, galaxyId,
                                galaxyClusterSolutions[k.key])
                      /\ heap' = heap
                 ELSE /\ heap' = Append(heap, MissPrediction)
                      /\ testPredictions' =
                            Put(testPredictions, galaxyId, Len(heap) + 1)
              /\ todo' = todo \ {galaxyId}
              /\ UNCHANGED <<pc, err>>
    /\ UNCHANGED <<inputs, trainingGalaxyRGB, testGalaxyRGB, trainingSolutions,
                   headerRow, galaxyClusters, galaxyClusterSolutions, fo, wr,
                   count>>

\* Lines 245-257: os.Create (which may fail), the header, the comparison
\* of the two lengths.
CreatePredictionFile ==
    /\ pc = "CreateCentralPixelBenchmark"
    /\ todo = {}
    /\ \E created \in BOOLEAN :
         IF ~created
         THEN /\ pc' = "exit"
              /\ err' = "Error opening file"
              /\ UNCHANGED <<fo, wr, todo>>
         ELSE /\ fo' = [created |-> TRUE, rows |-> << >>]
              /\ wr' = <<headerRow>>
              /\ IF Cardinality(DOMAIN testPredictions)
                       = Cardinality(DOMAIN testGalaxyRGB)
                 THEN /\ pc' = "WritePredictions"
                      /\ todo' = DOMAIN testGalaxyRGB
                      /\ err' = err
                 ELSE /\ pc' = "exit"
                      /\ err' = "Lengths don't match"
                      /\ todo' = todo
    /\ UNCHANGED <<inputs, heap, trainingGalaxyRGB, testGalaxyRGB,
                   trainingSolutions, headerRow, galaxyClusters,
                   galaxyClusterSolutions, testPredictions, rgbCluster, count>>

BuildPredictionRow(galaxyId, pred) ==
    LET line == <<galaxyId>> \o [i \in 1..Len(pred) |-> FormatFloat(pred[i])]
    IN  [ok |-> Len(line) = RowLength, line |-> line]

\* Variant of WritePrediction that leaves the loop after the first row.
WritePredictionOnce ==
    /\ pc = "WritePredictions"
    /\ \E galaxyId \in todo :
         LET p == Lookup(testPredictions, galaxyId) IN
         IF SliceLen(heap, p) # NClasses
         THEN /\ pc' = "exit"
              /\ err' = "Do not have 37 predictions for galaxy"
              /\ UNCHANGED <<wr, count, todo>>
         ELSE LET row == BuildPredictionRow(galaxyId, heap[p]) IN
              IF ~row.ok
              THEN /\ pc' = "exit"
                   /\ err' = "line does not have 38 elements"
                   /\ UNCHANGED <<wr, count, todo>>
              ELSE /\ wr' = Append(wr, row.line)
                   /\ count' = count + 1
                   /\ todo' = {}
                   /\ UNCHANGED <<pc, err>>
    /\ UNCHANGED <<inputs, heap, trainingGalaxyRGB, testGalaxyRGB,
                   trainingSolutions, headerRow, galaxyClusters,
                   galaxyClusterSolutions, testPredictions, rgbCluster, fo>>

\* One iteration of the second range loop over testGalaxyRGB (any order).
WritePrediction ==
    /\ pc = "WritePredictions"
    /\ \E galaxyId \in todo :
         LET p == Lookup(testPredictions, galaxyId) IN
         IF SliceLen(heap, p) # NClasses
         THEN /\ pc' = "exit"
              /\ err' = "Do not have 37 predictions for galaxy"
              /\ UNCHANGED <<wr, count, todo>>
         ELSE LET row == BuildPredictionRow(galaxyId, heap[p]) IN
              IF ~row.ok
              THEN /\ pc' = "exit"
                   /\ err' = "line does not have 38 elements"
                   /\ UNCHANGED <<wr, count, todo>>
              ELSE /\ wr' = Append(wr, row.line)
                   /\ count' = count + 1
                   /\ todo' = todo \ {galaxyId}
                   /\ UNCHANGED <<pc, err>>
    /\ UNCHANGED <<inputs, heap, trainingGalaxyRGB, testGalaxyRGB,
                   trainingSolutions, headerRow, galaxyClusters,
                   galaxyClusterSolutions, testPredictions, rgbCluster, fo>>

\* Lines 266-272 and 293: Flush, the return to main, the end of the program.
FlushAndReturn ==
    /\ pc = "WritePredictions"
    /\ todo = {}
    /\ fo' = [fo EXCEPT !.rows = @ \o wr]
    /\ wr' = << >>
    /\ pc' = "done"
    /\ UNCHANGED <<inputs, err, heap, trainingGalaxyRGB, testGalaxyRGB,
                   trainingSolutions, headerRow, galaxyClusters,
                   galaxyClusterSolutions, testPredictions, rgbCluster, todo,
                   count>>

(* ---- main ---- *)
Next ==
    \/ GetTrainingGalaxyRGB
    \/ GetTestGalaxyRGB
    \/ GetTrainingSolutions
    \/ GetGalaxyClustersStep
    \/ GetGalaxyClustersReturn
    \/ GetSolutionsForGalaxyClusters
    \/ AssignPrediction
    \/ CreatePredictionFile
    \/ WritePrediction
    \/ FlushAndReturn

Spec == Init /\ [][Next]_vars

\* The key computation applied to one colour on both paths, for every hash
\* factor up to MaxHashFactor and every colour with channels up to MaxChannel.
InitHash ==
    /\ \E c \in (0..MaxChannel) \X (0..MaxChannel) \X (0..MaxChannel) :
         /\ imagesTraining = <<[id |-> TrainId(1), img |-> Jpeg(c)]>>
         /\ imagesTest = <<[id |-> TestId(1), img |-> Jpeg(c)]>>
    /\ solutionsFile = <<GoodRow(1)>>
    /\ hashFactor \in 1..MaxHashFactor
    /\ Start

SpecHash == InitHash /\ [][Next]_vars

(* ---- properties ---- *)
Intensity(RGB) == (RGB[1] + RGB[2] + RGB[3]) \div 3

KeyOf(RGB, H) ==
    LET a == Intensity(RGB) IN
    (RGB[1] \div a) * H * H + (RGB[2] \div a) * H + (RGB[3] \div a)

Members(k) == {galaxyClusters[k][i] : i \in 1..Len(galaxyClusters[k])}

\* The fields after the identifier of the (last) row of galaxyId.
FieldsOf(galaxyId) ==
    LET is == {i \in 1..Len(solutionsFile) : solutionsFile[i][1] = galaxyId}
        i == CHOOSE x \in is : \A y \in is : y <= x
    IN  SubSeq(solutionsFile[i], 2, Len(solutionsFile[i]))

\* The vector GetTrainingSolutions stored for galaxyId.
StoredAtStart(galaxyId) == AssignClassValues(FieldsOf(galaxyId)).row

\* The elementwise sum of the stored vectors of a set of galaxies.
RECURSIVE SumOver(_)
SumOver(S) ==
    IF S = {} THEN [j \in 1..37 |-> <<0, 1>>]
    ELSE LET g == CHOOSE x \in S : TRUE
             u == StoredAtStart(g)
             w == SumOver(S \ {g})
         IN  [j \in 1..37 |-> RatAdd(u[j], w[j])]

MeanOf(sum, n) == [j \in 1..37 |-> RatDivInt(sum[j], n)]

AfterClustering ==
    {"GetSolutionsForGalaxyClusters", "CreateCentralPixelBenchmark",
     "WritePredictions", "done"}

AfterAggregation == {"CreateCentralPixelBenchmark", "WritePredictions", "done"}

\* C1: from the return of AverageGalaxySolutions until the first prediction
\* is assigned, the averaged vector of a cluster of n >= 2 distinct galaxies
\* that all have a stored vector has length 37 and its j-th element is the
\* sum of the members' j-th elements, as GetTrainingSolutions stored them,
\* divided by n; the sum is over the set of members, so the order of the
\* cluster's list plays no part.
C1_AverageIsMean ==
    testPredictions = EmptyMap =>
    \A k \in DOMAIN galaxyClusterSolutions :
        LET n == Len(galaxyClusters[k]) IN
        (/\ n >= 2
         /\ Cardinality(Members(k)) = n
         /\ Members(k) \subseteq DOMAIN trainingSolutions)
        => LET v == heap[galaxyClusterSolutions[k]] IN
           /\ Len(v) = 37
           /\ v = MeanOf(SumOver(Members(k)), n)

\* A cluster of two galaxies with different stored vectors has been averaged.
C1_Witness ==
    \E k \in DOMAIN galaxyClusterSolutions :
        /\ Len(galaxyClusters[k]) >= 2
        /\ \E g1, g2 \in Members(k) : StoredAtStart(g1) # StoredAtStart(g2)

\* C2: once every cluster is averaged, the stored vector of every training
\* identifier is what GetTrainingSolutions stored, and no cluster's vector
\* shares its backing array with a stored vector.
C2_LabelTableUnchanged ==
    pc \in AfterAggregation =>
        /\ \A g \in DOMAIN trainingSolutions :
               heap[trainingSolutions[g]] = StoredAtStart(g)
        /\ \A k \in DOMAIN galaxyClusterSolutions :
               \A g \in DOMAIN trainingSolutions :
                   galaxyClusterSolutions[k] # trainingSolutions[g]

\* C3: for a non-empty training set without zero intensities, what
\* GetGalaxyClusters returns is a partition: every training identifier is
\* at exactly one place of exactly one list, that list is the one of its own
\* key, and no list is empty.
C3_ClustersPartition ==
    (/\ pc \in AfterClustering
     /\ DOMAIN trainingGalaxyRGB # {}
     /\ \A g \in DOMAIN trainingGalaxyRGB : Intensity(trainingGalaxyRGB[g]) # 0)
    => /\ \A g \in DOMAIN trainingGalaxyRGB :
              LET places == {p \in UNION {{<<k, i>> : i \in 1..Len(galaxyClusters[k])} :
                                             k \in DOMAIN galaxyClusters} :
                                galaxyClusters[p[1]][p[2]] = g}
              IN  /\ Cardinality(places) = 1
                  /\ \A p \in places :
                         p[1] = KeyOf(trainingGalaxyRGB[g], hashFactor)
       /\ \A k \in DOMAIN galaxyClusters :
              /\ galaxyClusters[k] # << >>
              /\ Members(k) \subseteq DOMAIN trainingGalaxyRGB

\* Two training galaxies have been put into one cluster.
C3_Witness ==
    /\ pc \in AfterClustering
    /\ \A g \in DOMAIN trainingGalaxyRGB : Intensity(trainingGalaxyRGB[g]) # 0
    /\ \E k \in DOMAIN galaxyClusters : Len(galaxyClusters[k]) >= 2

\* C4: every test galaxy that got a prediction got the averaged vector of
\* the cluster of its key if there is one, and 37 zeros otherwise; when no
\* test galaxy has zero intensity, the loop over the test galaxies never
\* ends the run, so the run either ended before any prediction was assigned
\* or every test galaxy has one.
C4_HitOrZeroFallback ==
    /\ \A g \in DOMAIN testPredictions :
           LET k == KeyOf(testGalaxyRGB[g], hashFactor)
               v == heap[testPredictions[g]]
           IN  IF k \in DOMAIN galaxyClusterSolutions
               THEN v = heap[galaxyClusterSolutions[k]]
               ELSE v = [j \in 1..37 |-> <<0, 1>>]
    /\ (\A g \in DOMAIN testGalaxyRGB : Intensity(testGalaxyRGB[g]) # 0)
       => /\ pc \in Fatal
              => \/ testPredictions = EmptyMap
                 \/ DOMAIN testPredictions = DOMAIN testGalaxyRGB
          /\ pc \in {"WritePredictions", "done"}
              => DOMAIN testPredictions = DOMAIN testGalaxyRGB

\* One test galaxy hit a cluster and another one missed.
C4_Witness ==
    \E g1, g2 \in DOMAIN testPredictions :
        /\ KeyOf(testGalaxyRGB[g1], hashFactor) \in DOMAIN galaxyClusterSolutions
        /\ KeyOf(testGalaxyRGB[g2], hashFactor) \notin DOMAIN galaxyClusterSolutions
        /\ testPredictions[g2] < testPredictions[g1]
           \/ testPredictions[g1] < testPredictions[g2]

\* C5: when the run is done, the rows of the prediction file after the
\* header are one per test identifier: as many rows as identifiers, every
\* identifier in exactly one row, every row of 38 fields, count rows made.
C5_OneRowPerTestGalaxy ==
    pc = "done" =>
        LET rows == Tail(fo.rows) IN
        /\ Len(rows) = Cardinality(DOMAIN testGalaxyRGB)
        /\ count = Cardinality(DOMAIN testGalaxyRGB)
        /\ \A g \in DOMAIN testGalaxyRGB :
               Cardinality({i \in 1..Len(rows) : rows[i][1] = g}) = 1
        /\ \A i \in 1..Len(rows) : Len(rows[i]) = 38

\* A run with two test galaxies is done.
C5_Witness ==
    /\ pc = "done"
    /\ Cardinality(DOMAIN testGalaxyRGB) >= 2
    /\ Len(fo.rows) >= 3

\* C6: for a colour of non-zero intensity and any hash factor, the key under
\* which GetGalaxyClusters files a training galaxy and the key
\* CreateCentralPixelBenchmark computes for a test galaxy are both
\* (r/a)*H*H + (g/a)*H + (b/a), hence equal for equal colours, and the
\* training map still holds the colours GetGalaxyRGB put there.
C6_SameKeyOnBothPaths ==
    /\ \A k \in DOMAIN galaxyClusters :
           \A g \in Members(k) :
               /\ Intensity(trainingGalaxyRGB[g]) > 0
               /\ k = KeyOf(trainingGalaxyRGB[g], hashFactor)
               /\ \A t \in DOMAIN rgbCluster :
                      testGalaxyRGB[t] = trainingGalaxyRGB[g] => rgbCluster[t] = k
    /\ \A t \in DOMAIN rgbCluster :
           /\ Intensity(testGalaxyRGB[t]) > 0
           /\ rgbCluster[t] = KeyOf(testGalaxyRGB[t], hashFactor)
    /\ galaxyClusters # EmptyMap
       => \A i \in 1..Len(imagesTraining) :
              trainingGalaxyRGB[imagesTraining[i].id] = imagesTraining[i].img.px

\* Both paths have computed the key of a colour whose three ratios differ,
\* with a hash factor other than the one of main.
C6_Witness ==
    /\ hashFactor # HashFactor
    /\ \E t \in DOMAIN rgbCluster :
           LET c == testGalaxyRGB[t]
               a == Intensity(c)
           IN  /\ Cardinality({c[1] \div a, c[2] \div a, c[3] \div a}) = 3
               /\ rgbCluster[t] \in DOMAIN galaxyClusters

\* C7: a colour of zero average intensity never crashes the run.
C7_ZeroIntensityHandled ==
    pc = "panic" => err # "integer divide by zero"

\* C8: a row of the solutions file that does not have exactly 37 value
\* fields ends the run with a fatal error as soon as the file is read, and
\* no vector is stored for it.
C8_WrongLengthRowIsFatal ==
    \A i \in 1..Len(solutionsFile) :
        Len(solutionsFile[i]) - 1 # 37
        => /\ solutionsFile[i][1] \notin DOMAIN trainingSolutions
           /\ pc \in {"GetTrainingGalaxyRGB", "GetTestGalaxyRGB",
                      "GetTrainingSolutions"} \cup Fatal

\* C9: a run that ended in a fatal error has not created the prediction
\* file and has handed no row to the writer; once the file is created the
\* run is writing rows or done, and every galaxy still to be written has a
\* prediction of 37 values, so that writing it cannot end the run.
C9_NoPartialOutput ==
    /\ pc \in Fatal => fo = NoFile /\ wr = << >>
    /\ (fo.created /\ pc # "done")
       => /\ pc = "WritePredictions"
          /\ \A g \in todo : SliceLen(heap, Lookup(testPredictions, g)) = 37

\* The file is created, one prediction row is handed to the writer and
\* another galaxy is still to be written.
C9_Witness ==
    /\ fo.created
    /\ Len(wr) >= 2
    /\ todo # {}

\* C10: right after GetTrainingSolutions, the vector stored for a row of an
\* identifier and 37 numeric fields has length 37 and its j-th element is
\* the value of the j-th field, the last one included.
C10_StoredVectorIsTheRow ==
    pc = "GetGalaxyClusters" =>
        \A i \in 1..Len(solutionsFile) :
            LET row == solutionsFile[i] IN
            (/\ Len(row) = 38
             /\ \A j \in 2..38 : ~ParseFloat(row[j]).err
             /\ \A i2 \in (i + 1)..Len(solutionsFile) :
                    solutionsFile[i2][1] # row[1])
            => LET v == heap[trainingSolutions[row[1]]] IN
               /\ Len(v) = 37
               /\ \A j \in 1..37 : v[j] = ParseFloat(row[j + 1]).val

====
